---- MODULE Spec2Model ----
(***************************************************************************)
(* Model of the particle-emitter core: Pool<T> (src/src/utils/Pool.ts),    *)
(* Emitter and Particle with their integrators (Utility.eulerUpdate and    *)
(* Utility.verletUpdate), collision and boundary handling, the Vector      *)
(* arithmetic and argument handling they rest on, and the frame loop of    *)
(* main.ts that drives the Emitter.                                        *)
(*                                                                         *)
(* Numbers are integers (one lifespan unit = 0.5 s, so lifespan 1.0 is 2   *)
(* and dt 0.5 is 1). Object identity is modelled explicitly: pooled        *)
(* objects are numbered in creation order, and every Vector-valued field   *)
(* of a particle is a reference, either to the module-level zeroVector, to *)
(* Emitter.position, or to a Vector object no other field refers to.       *)
(***************************************************************************)
EXTENDS Integers, Sequences, FiniteSets, TLC

\* ------------------------------------------------------------------ bounds
\* largest pool capacity explored by the Pool specification
MaxCapacity == 3

\* Constants.MAX_PARTICLES, scaled down for the Emitter specifications
MAX_PARTICLES == 2

\* largest initial options.lifespan, in lifespan units
MaxLifespan == 2

\* largest frame time dt, in lifespan units
MaxDt == 2

\* the Emitter stops being stepped once the shared lifespan is this far below 0
MaxOverrun == 1

\* largest options.radius drawn
MaxRadius == 1

\* largest speed the options getters draw, in position units per step
MaxSpeed == 1

\* ctx.width and ctx.height of the drawing surface
SurfaceSize == 4

\* ------------------------------------------------------------- JS values
\* null, as returned by Pool.acquire(); pooled objects are numbered from 1
Null == 0

\* the value of a property the object does not have; arithmetic on it is NaN
Undefined == -1

\* the value Constants assigns to globalThis.__DEBUG__
DEBUG == TRUE

\* ------------------------------------------------------------ sequences
\* Array.prototype.indexOf, 1-based; 0 stands for JavaScript's -1
IndexOf(seq, x) ==
    IF \E i \in 1..Len(seq) : seq[i] = x
    THEN CHOOSE i \in 1..Len(seq) : seq[i] = x /\ \A j \in 1..(i - 1) : seq[j] # x
    ELSE 0

\* Array.prototype.splice(index, 1), index 1-based
Splice1(seq, index) ==
    [i \in 1..(Len(seq) - 1) |-> IF i < index THEN seq[i] ELSE seq[i + 1]]

\* Array.prototype.pop(): the array without its last element
Pop(seq) == SubSeq(seq, 1, Len(seq) - 1)

\* the elements of an array, as a set
Elements(seq) == {seq[i] : i \in 1..Len(seq)}

\* ---------------------------------------------------------------- state
VARIABLES
    pool,        \* the Pool: allObjects, activeObjects, inactiveObjects, maxSize, ...
    particles,   \* the Particle objects created so far, by object number
    options,     \* the options objects, by reference
    zeroVector,  \* the module-level scratch Vector of Particle
    emitter,     \* the Emitter: options.position and position
    fired,       \* per particle: callback invocations since its last init()
    warned,      \* whether the last call reached console.warn in Pool.release
    runCount,    \* per particle: p.run() invocations during the last call
    call,        \* the last call made: operation, argument, result
    prev,        \* the call made before it (kept for the Pool and the Particle)
    snapshot,    \* the pool as it was before the last successful acquire(); for
                 \* a Vector call, the Vectors as they were before the call
    acquired,    \* results of the acquire() calls made while no release() was
    released,    \* whether release() has been called since construction
    steps,       \* per particle: lifespan at its last init() and the dt of every
                 \* step since
    startActive, \* the particles that were active when the last call began, if
                 \* it was Emitter.run
    vectors,     \* the Vector objects a caller holds: a and b
    debug,       \* globalThis.__DEBUG__
    lastTime     \* main.ts: the time stamp of the last frame, in lifespan units
                 \* since the page was loaded

vars == <<pool, particles, options, zeroVector, emitter, fired, warned,
          runCount, call, prev, snapshot, acquired, released, steps,
          startActive, vectors, debug, lastTime>>

\* the program's objects as one record, so that a method is a function on it
World ==
    [pool |-> pool, particles |-> particles, options |-> options,
     zeroVector |-> zeroVector, emitter |-> emitter, fired |-> fired,
     warned |-> warned, runCount |-> runCount, vectors |-> vectors,
     debug |-> debug, lastTime |-> lastTime]

Commit(w) ==
    /\ pool' = w.pool
    /\ particles' = w.particles
    /\ options' = w.options
    /\ zeroVector' = w.zeroVector
    /\ emitter' = w.emitter
    /\ fired' = w.fired
    /\ warned' = w.warned
    /\ runCount' = w.runCount
    /\ vectors' = w.vectors
    /\ debug' = w.debug
    /\ lastTime' = w.lastTime

\* the initial state holding the objects of w
Start(w) ==
    /\ pool = w.pool
    /\ particles = w.particles
    /\ options = w.options
    /\ zeroVector = w.zeroVector
    /\ emitter = w.emitter
    /\ fired = w.fired
    /\ warned = w.warned
    /\ runCount = w.runCount
    /\ vectors = w.vectors
    /\ debug = w.debug
    /\ lastTime = w.lastTime

\* ----------------------------------------------------------------- Pool
\* a reference to one of the Vector objects a particle field can hold
ZeroRef == [ref |-> "zeroVector", v |-> <<0, 0>>]
OriginRef == [ref |-> "emitter.position", v |-> <<0, 0>>]
Own(v) == [ref |-> "own", v |-> v]

\* Particle's constructor and field initialisers: every Vector field starts
\* as a reference to the one shared zeroVector
NewParticle(id, opts) ==
    [id |-> id, options |-> opts, position |-> ZeroRef,
     prevPosition |-> ZeroRef, velocity |-> ZeroRef, acceleration |-> ZeroRef,
     callback |-> "undefined", active |-> FALSE]

\* Pool.createObject: new ObjectClass(options). The new object's number is
\* its identity; a Particle also gets its fields.
createObject(w) ==
    LET id == w.pool.created + 1
    IN [w EXCEPT !.pool.created = id,
                 !.particles = IF w.pool.ObjectClass = "Particle"
                               THEN Append(@, NewParticle(id, w.pool.options))
                               ELSE @,
                 !.fired = IF w.pool.ObjectClass = "Particle"
                           THEN Append(@, 0) ELSE @,
                 !.runCount = IF w.pool.ObjectClass = "Particle"
                              THEN Append(@, 0) ELSE @]

\* Pool.init with the loop bound off by one (index <= maxSize)
RECURSIVE initOneMore(_, _)
initOneMore(w, index) ==
    IF index <= w.pool.maxSize
    THEN LET c == createObject(w)
             newObject == c.pool.created
         IN initOneMore([c EXCEPT !.pool.allObjects = Append(@, newObject),
                                  !.pool.inactiveObjects = Append(@, newObject)],
                        index + 1)
    ELSE w

\* Pool.init: the pre-fill loop, from the given index
RECURSIVE init(_, _)
init(w, index) ==
    IF index < w.pool.maxSize
    THEN LET c == createObject(w)
             newObject == c.pool.created
         IN init([c EXCEPT !.pool.allObjects = Append(@, newObject),
                           !.pool.inactiveObjects = Append(@, newObject)],
                 index + 1)
    ELSE w

\* Pool's constructor
NewPool(w, ObjectClass, maxSize, opts) ==
    init([w EXCEPT !.pool = [allObjects |-> <<>>, activeObjects |-> <<>>,
                             inactiveObjects |-> <<>>, ObjectClass |-> ObjectClass,
                             maxSize |-> maxSize, options |-> opts,
                             created |-> 0]],
         0)

\* Pool.acquire with the capacity test off by one (<= maxSize)
acquireBeyondCapacity(w) ==
    IF Len(w.pool.inactiveObjects) > 0
    THEN LET object == w.pool.inactiveObjects[Len(w.pool.inactiveObjects)]
         IN [w |-> [w EXCEPT !.pool.inactiveObjects = Pop(@),
                             !.pool.activeObjects = Append(@, object)],
             object |-> object]
    ELSE IF Len(w.pool.allObjects) <= w.pool.maxSize
    THEN LET c == createObject(w)
             object == c.pool.created
         IN [w |-> [c EXCEPT !.pool.allObjects = Append(@, object),
                             !.pool.activeObjects = Append(@, object)],
             object |-> object]
    ELSE [w |-> w, object |-> Null]

\* Pool.acquire taking the first inactive object (shift()) instead of the last
acquireShift(w) ==
    IF Len(w.pool.inactiveObjects) > 0
    THEN LET object == w.pool.inactiveObjects[1]
         IN [w |-> [w EXCEPT !.pool.inactiveObjects = Tail(@),
                             !.pool.activeObjects = Append(@, object)],
             object |-> object]
    ELSE IF Len(w.pool.allObjects) < w.pool.maxSize
    THEN LET c == createObject(w)
             object == c.pool.created
         IN [w |-> [c EXCEPT !.pool.allObjects = Append(@, object),
                             !.pool.activeObjects = Append(@, object)],
             object |-> object]
    ELSE [w |-> w, object |-> Null]

\* Pool.acquire: the world after the call, and the object returned
acquire(w) ==
    IF Len(w.pool.inactiveObjects) > 0
    THEN LET object == w.pool.inactiveObjects[Len(w.pool.inactiveObjects)]
         IN [w |-> [w EXCEPT !.pool.inactiveObjects = Pop(@),
                             !.pool.activeObjects = Append(@, object)],
             object |-> object]
    ELSE IF Len(w.pool.allObjects) < w.pool.maxSize
    THEN LET c == createObject(w)
             object == c.pool.created
         IN [w |-> [c EXCEPT !.pool.allObjects = Append(@, object),
                             !.pool.activeObjects = Append(@, object)],
             object |-> object]
    ELSE [w |-> w, object |-> Null]

\* Pool.release without the splice: the object stays in activeObjects
releaseKeepsActive(w, object) ==
    LET activeIndex == IndexOf(w.pool.activeObjects, object)
    IN IF activeIndex > 0
       THEN [w EXCEPT !.pool.inactiveObjects =
                          IF IndexOf(@, object) = 0 THEN Append(@, object) ELSE @]
       ELSE [w EXCEPT !.warned = TRUE]

\* Pool.release that warns about an object that is not active and then pools
\* it all the same
releaseAdopts(w, object) ==
    LET activeIndex == IndexOf(w.pool.activeObjects, object)
    IN IF activeIndex > 0
       THEN [w EXCEPT !.pool.activeObjects = Splice1(@, activeIndex),
                      !.pool.inactiveObjects =
                          IF IndexOf(@, object) = 0 THEN Append(@, object) ELSE @]
       ELSE [w EXCEPT !.warned = TRUE,
                      !.pool.inactiveObjects = Append(@, object)]

\* Pool.release
release(w, object) ==
    LET activeIndex == IndexOf(w.pool.activeObjects, object)
    IN IF activeIndex > 0
       THEN [w EXCEPT !.pool.activeObjects = Splice1(@, activeIndex),
                      !.pool.inactiveObjects =
                          IF IndexOf(@, object) = 0 THEN Append(@, object) ELSE @]
       ELSE [w EXCEPT !.warned = TRUE]

\* Pool.length
length(w) == Len(w.pool.allObjects)

\* Pool.getActivePool: the live activeObjects array itself
getActivePool(w) == w.pool.activeObjects

\* --------------------------------------------------- Pool specification
\* a world holding nothing yet
Blank ==
    [pool |-> [allObjects |-> <<>>, activeObjects |-> <<>>,
               inactiveObjects |-> <<>>, ObjectClass |-> "Object",
               maxSize |-> 0, options |-> 0, created |-> 0],
     particles |-> <<>>, options |-> <<>>, zeroVector |-> <<0, 0>>,
     emitter |-> [options |-> [position |-> <<0, 0>>], position |-> <<0, 0>>],
     fired |-> <<>>, warned |-> FALSE, runCount |-> <<>>,
     vectors |-> [a |-> <<0, 0>>, b |-> <<0, 0>>], debug |-> DEBUG,
     lastTime |-> 0]

NoCall == [op |-> "new", arg |-> 0, result |-> 0]

\* new Pool(ObjectClass, N, options) for a plain object class
PoolInit ==
    \E N \in 0..MaxCapacity :
        /\ Start(NewPool(Blank, "Object", N, 0))
        /\ call = NoCall
        /\ prev = NoCall
        /\ snapshot = pool
        /\ acquired = <<>>
        /\ released = FALSE
        /\ steps = <<>>
        /\ startActive = {}

\* a caller calls pool.acquire()
Acquire ==
    LET r == acquire([World EXCEPT !.warned = FALSE])
    IN /\ Commit(r.w)
       /\ call' = [op |-> "acquire", arg |-> 0, result |-> r.object]
       /\ prev' = call
       /\ snapshot' = IF r.object # Null THEN pool ELSE snapshot
       /\ acquired' = IF ~released /\ Len(acquired) <= pool.maxSize + 1
                      THEN Append(acquired, r.object) ELSE acquired
       /\ UNCHANGED <<released, steps, startActive>>

\* a caller calls pool.release(object), with any object: one the pool holds
\* (active or not) or one it never created
Release ==
    \E object \in 1..(MaxCapacity + 1) :
        /\ Commit(release([World EXCEPT !.warned = FALSE], object))
        /\ call' = [op |-> "release", arg |-> object, result |-> 0]
        /\ prev' = call
        /\ released' = TRUE
        /\ acquired' = <<>>
        /\ UNCHANGED <<snapshot, steps, startActive>>

PoolNext == Acquire \/ Release

SpecPool == PoolInit /\ [][PoolNext]_vars

\* --------------------------------------------------------------- Vector
\* the arguments a Vector method can be given
Num(n) == [k |-> "number", n |-> n, v |-> <<>>]
Vec(v) == [k |-> "Vector", n |-> 0, v |-> v]
Arr(a) == [k |-> "Array", n |-> 0, v |-> a]

\* Vector.processArgs without the throw: malformed arguments always give [0, 0]
processArgsSilent(flag, args) ==
    IF Len(args) = 0 THEN [throws |-> FALSE, v |-> <<0, 0>>]
    ELSE LET x == args[1]
         IN IF x.k = "Vector" THEN [throws |-> FALSE, v |-> <<0, 0>>]
            ELSE IF x.k = "Array"
            THEN LET valX == IF Len(x.v) >= 1 THEN x.v[1] ELSE 0
                     valY == IF Len(x.v) > 1 THEN x.v[2] ELSE valX
                 IN [throws |-> FALSE, v |-> <<valX, valY>>]
            ELSE IF Len(args) = 2 /\ x.k = "number" /\ args[2].k = "number"
            THEN [throws |-> FALSE, v |-> <<x.n, args[2].n>>]
            ELSE IF Len(args) = 1 /\ x.k = "number"
            THEN [throws |-> FALSE, v |-> <<x.n, x.n>>]
            ELSE [throws |-> FALSE, v |-> <<0, 0>>]

\* Vector.processArgs, with __DEBUG__ = flag: the pair [x, y] the arguments
\* stand for, or a throw.
\* A Vector argument passes the isVector test and is then read as x[0], x[1]
\* and x.length, none of which a Vector has: each is undefined, and
\* undefined || 0.0 is 0.
processArgsIn(flag, args) ==
    IF Len(args) = 0 THEN [throws |-> FALSE, v |-> <<0, 0>>]
    ELSE LET x == args[1]
         IN IF x.k = "Vector" THEN [throws |-> FALSE, v |-> <<0, 0>>]
            ELSE IF x.k = "Array"
            THEN LET valX == IF Len(x.v) >= 1 THEN x.v[1] ELSE 0
                     valY == IF Len(x.v) > 1 THEN x.v[2] ELSE valX
                 IN [throws |-> FALSE, v |-> <<valX, valY>>]
            ELSE IF Len(args) = 2 /\ x.k = "number" /\ args[2].k = "number"
            THEN [throws |-> FALSE, v |-> <<x.n, args[2].n>>]
            ELSE IF Len(args) = 1 /\ x.k = "number"
            THEN [throws |-> FALSE, v |-> <<x.n, x.n>>]
            ELSE [throws |-> flag, v |-> <<0, 0>>]

\* Vector.processArgs as the Emitter and the Particle reach it, with
\* __DEBUG__ as Constants sets it
processArgs(args) == processArgsIn(DEBUG, args)

\* Vector.create(...args): new Vector(x, y) of the processed arguments
create(args) ==
    LET xy == processArgs(args).v
    IN processArgs(<<Num(xy[1]), Num(xy[2])>>).v

\* Vector.clone: new Vector(this.x, this.y)
clone(this) == processArgs(<<Num(this[1]), Num(this[2])>>).v

\* Vector.add, on the components of this
add(this, args) ==
    LET xy == processArgs(args).v
    IN <<this[1] + xy[1], this[2] + xy[2]>>

\* Vector.multiply
multiply(this, args) ==
    LET xy == processArgs(args).v
    IN <<this[1] * xy[1], this[2] * xy[2]>>

\* Vector.divide without the tests for a zero divisor: x / 0 is not finite and
\* the setter of the component stores 0 for it
divideUnguarded(this, args) ==
    LET xy == processArgs(args).v
    IN <<IF xy[1] # 0 THEN this[1] \div xy[1] ELSE 0,
         IF xy[2] # 0 THEN this[2] \div xy[2] ELSE 0>>

\* Vector.divide; a zero divisor leaves the component as it is. Operands are
\* drawn so that the quotients are whole.
divide(this, args) ==
    LET xy == processArgs(args).v
    IN <<IF xy[1] # 0 THEN this[1] \div xy[1] ELSE this[1],
         IF xy[2] # 0 THEN this[2] \div xy[2] ELSE this[2]>>

\* static Vector.divide(v1, ...args): a new Vector made from v1, divided
Vector_divide(v1, args) == divide(create(<<v1>>), args)

\* an argument that is neither a number, a Vector nor an array of numbers
Str == [k |-> "string", n |-> 0, v |-> <<>>]

\* Vector.subtract
subtract(this, args) ==
    LET xy == processArgs(args).v
    IN <<this[1] - xy[1], this[2] - xy[2]>>

\* the % operator of JavaScript on whole numbers, y # 0: the result has the
\* sign of x
Rem(x, y) ==
    LET absY == IF y < 0 THEN -y ELSE y
    IN IF x < 0 THEN -((-x) % absY) ELSE x % absY

\* Vector.remainder and #calculateRemainder
remainder(this, args) ==
    LET xy == processArgs(args).v
    IN <<IF xy[1] # 0 THEN Rem(this[1], xy[1]) ELSE this[1],
         IF xy[2] # 0 THEN Rem(this[2], xy[2]) ELSE this[2]>>

\* Vector.magnitudeSq
magnitudeSq(this) == this[1] * this[1] + this[2] * this[2]

\* Vector.magnitude: Math.sqrt, whole for the Vectors drawn here
magnitude(this) ==
    CHOOSE m \in 0..magnitudeSq(this) :
        m * m <= magnitudeSq(this) /\ (m + 1) * (m + 1) > magnitudeSq(this)

\* 1 / 0, which Vector.isNumber rejects
Infinity == [k |-> "Infinity", n |-> 0, v |-> <<>>]

\* Vector.normalize without the test for a zero magnitude: multiply(1 / 0)
normalizeUnguarded(flag, this) ==
    LET mag == magnitude(this)
    IN IF mag # 0
       THEN [throws |-> FALSE, v |-> <<this[1] \div mag, this[2] \div mag>>]
       ELSE [throws |-> processArgsIn(flag, <<Infinity>>).throws,
             v |-> IF processArgsIn(flag, <<Infinity>>).throws THEN this
                   ELSE multiply(this, <<Infinity>>)]

\* Vector.normalize with __DEBUG__ = flag: multiply(1 / mag), written as the
\* division by mag it amounts to; the Vectors drawn here have whole quotients
normalize(flag, this) ==
    LET mag == magnitude(this)
    IN IF mag # 0
       THEN [throws |-> FALSE, v |-> <<this[1] \div mag, this[2] \div mag>>]
       ELSE [throws |-> FALSE, v |-> this]

\* Vector.copy(arg) with a Vector argument: set(arg.x, arg.y)
copy(this, arg) == processArgs(<<Num(arg[1]), Num(arg[2])>>).v

\* Vector.dot(...args) with __DEBUG__ = flag: Vector.create(args) is handed
\* the rest array itself, one argument. An array of numbers is read as a
\* pair; an array holding a Vector or an array is none of the accepted forms.
dot(flag, this, args) ==
    LET packed == IF \A i \in 1..Len(args) : args[i].k = "number"
                  THEN Arr([i \in 1..Len(args) |-> args[i].n])
                  ELSE Str
        pa == processArgsIn(flag, <<packed>>)
    IN [throws |-> pa.throws,
        n |-> this[1] * pa.v[1] + this[2] * pa.v[2]]

\* Vector.cross(...args) with __DEBUG__ = flag: Vector.create(args) as in dot
cross(flag, this, args) ==
    LET packed == IF \A i \in 1..Len(args) : args[i].k = "number"
                  THEN Arr([i \in 1..Len(args) |-> args[i].n])
                  ELSE Str
        pa == processArgsIn(flag, <<packed>>)
    IN [throws |-> pa.throws,
        n |-> this[1] * pa.v[2] - this[2] * pa.v[1]]

\* the methods that return a number
ProductOps == {"dot", "cross"}

\* the in-place arithmetic methods
ArithOps == {"add", "subtract", "multiply", "divide", "remainder"}

\* a call this.op(...args) of an in-place arithmetic method with
\* __DEBUG__ = flag: processArgs is the first statement, so a throw leaves
\* this as it was
Method(flag, op, this, args) ==
    IF processArgsIn(flag, args).throws THEN [throws |-> TRUE, v |-> this]
    ELSE [throws |-> FALSE,
          v |-> CASE op = "add" -> add(this, args)
                  [] op = "subtract" -> subtract(this, args)
                  [] op = "multiply" -> multiply(this, args)
                  [] op = "divide" -> divide(this, args)
                  [] op = "remainder" -> remainder(this, args)]

\* static Vector.add(v1, v2)
Vector_add(v1, v2) == add(create(<<v1>>), <<v2>>)

\* static Vector.subtract(v1, ...args)
Vector_subtract(v1, args) == subtract(create(<<v1>>), args)

\* static Vector.multiply(v1, ...args)
Vector_multiply(v1, args) == multiply(create(<<v1>>), args)

\* static Vector.remainder(v1, ...args)
Vector_remainder(v1, args) == remainder(create(<<v1>>), args)

\* a call Vector.op(v1, v2) of a binary static function on two Vectors: the
\* components of the new Vector it returns
Static(op, v1, v2) ==
    CASE op = "add" -> Vector_add(v1, v2)
      [] op = "subtract" -> Vector_subtract(v1, <<v2>>)
      [] op = "multiply" -> Vector_multiply(v1, <<v2>>)
      [] op = "divide" -> Vector_divide(v1, <<v2>>)
      [] op = "remainder" -> Vector_remainder(v1, <<v2>>)

\* ------------------------------------------------------------- Particle
\* the components of the Vector a field refers to
Deref(w, f) ==
    IF f.ref = "zeroVector" THEN w.zeroVector
    ELSE IF f.ref = "emitter.position" THEN w.emitter.position
    ELSE f.v

\* an in-place write to the Vector that field `name` of particle p refers to
Store(w, p, name, v) ==
    LET f == w.particles[p][name]
    IN IF f.ref = "zeroVector" THEN [w EXCEPT !.zeroVector = v]
       ELSE IF f.ref = "emitter.position" THEN [w EXCEPT !.emitter.position = v]
       ELSE [w EXCEPT !.particles[p][name].v = v]

\* an in-place arithmetic call on the Vector a field of particle p refers to:
\* p.name.op(...args)
FieldCall(w, p, name, op, args) ==
    Store(w, p, name, Method(DEBUG, op, Deref(w, w.particles[p][name]), args).v)

\* Particle.init(callback, position, velocity): position and velocity are
\* stored as given, by reference
Particle_init(w, p, callback, position, velocity) ==
    LET w1 == [w EXCEPT !.particles[p].callback = callback,
                        !.particles[p].active = TRUE,
                        !.particles[p].position = position,
                        !.particles[p].prevPosition = Own(clone(Deref(w, position))),
                        !.particles[p].velocity = velocity,
                        !.fired[p] = 0]
    IN Store(w1, p, "acceleration",
             multiply(Deref(w1, w1.particles[p].acceleration), <<Num(0)>>))

\* Emitter.release calling this.pool.release(p) a second time
Emitter_releaseTwice(w, p) == release(release(w, p), p)

\* Emitter.release: the callback handed to every spawned particle
Emitter_release(w, p) == release(w, p)

\* Particle.destroy without the last statement: the callback is kept
destroyKeepsCallback(w, p) ==
    LET w1 == [w EXCEPT !.particles[p].active = FALSE]
    IN IF w1.particles[p].callback = "undefined" THEN w1
       ELSE LET called == IF w1.particles[p].callback = "Emitter.release"
                          THEN Emitter_release(w1, p) ELSE w1
            IN [called EXCEPT !.fired[p] = @ + 1]

\* Particle.destroy
destroy(w, p) ==
    LET w1 == [w EXCEPT !.particles[p].active = FALSE]
        w2 == IF w1.particles[p].callback = "undefined" THEN w1
              ELSE LET called == IF w1.particles[p].callback = "Emitter.release"
                                 THEN Emitter_release(w1, p) ELSE w1
                   IN [called EXCEPT !.fired[p] = @ + 1]
    IN [w2 EXCEPT !.particles[p].callback = "undefined"]

\* Particle.reset
reset(w, p) ==
    [w EXCEPT !.particles[p].active = FALSE,
              !.particles[p].position = ZeroRef,
              !.particles[p].velocity = ZeroRef]

\* Particle.dead
dead(w, p) == w.options[w.particles[p].options].lifespan < 0

\* Particle.applyForce(force)
applyForce(w, p, force) ==
    LET o == w.options[w.particles[p].options]
    IN IF o.isStatic THEN w
       ELSE Store(w, p, "acceleration",
                  add(Deref(w, w.particles[p].acceleration),
                      <<Vec(Vector_divide(force, <<Num(o.mass)>>))>>))

\* Utility.eulerUpdate(p, dt): the world after it, newPosition, oldPosition
eulerUpdate(w, p, dt) ==
    LET oldPosition == clone(Deref(w, w.particles[p].position))
        newPosition == add(clone(Deref(w, w.particles[p].position)),
                           <<Vec(Deref(w, w.particles[p].velocity))>>)
        w1 == applyForce(w, p, Vec(w.options[w.particles[p].options].gravity))
        w2 == Store(w1, p, "acceleration",
                    multiply(Deref(w1, w1.particles[p].acceleration),
                             <<Num(dt * dt)>>))
        w3 == Store(w2, p, "velocity",
                    add(Deref(w2, w2.particles[p].velocity),
                        <<Vec(Deref(w2, w2.particles[p].acceleration))>>))
        w4 == Store(w3, p, "acceleration",
                    multiply(Deref(w3, w3.particles[p].acceleration), <<Num(0)>>))
    IN [w |-> w4, newPosition |-> newPosition, oldPosition |-> oldPosition]

\* the assignments after the integrator in update and verlet_update, e
\* being what the integrator returned: prevPosition, position and
\* options.lifespan. options.alpha, which only the drawn colour reads, is
\* left out.
stepTo(e, p, dt) ==
    [e.w EXCEPT !.particles[p].prevPosition = Own(e.oldPosition),
                !.particles[p].position = Own(e.newPosition),
                !.options[e.w.particles[p].options].lifespan = @ - dt]

\* update and verlet_update without their last statement: nothing is destroyed
expireNever(w, p) == w

\* the last statement of update and verlet_update, with the test written
\* lifespan <= 0
expireAtZero(w, p) ==
    IF w.options[w.particles[p].options].lifespan <= 0 THEN destroy(w, p) ELSE w

\* the last statement of update and verlet_update:
\* if (this.options.lifespan < 0) this.destroy()
expire(w, p) ==
    IF w.options[w.particles[p].options].lifespan < 0 THEN destroy(w, p) ELSE w

\* Particle.update with the death test written lifespan <= 0
updateDiesAtZero(w, p, dt) == expireAtZero(stepTo(eulerUpdate(w, p, dt), p, dt), p)

\* Particle.update(dt)
update(w, p, dt) == expire(stepTo(eulerUpdate(w, p, dt), p, dt), p)

\* Utility.verletUpdate, the return statement: acceleration.multiply(0) and
\* the two positions
verletEnd(w, inner, oldPosition, p) ==
    [w |-> FieldCall(w, p, "acceleration", "multiply", <<Num(0)>>),
     newPosition |-> Vector_add(Vec(inner),
                                Vec(Deref(w, w.particles[p].acceleration))),
     oldPosition |-> oldPosition]

\* Utility.verletUpdate, the arguments of the outer Vector.add, in the order
\* they are evaluated: Vector.add(p.position, deltaPosition), deltaPosition
\* being p.position itself, then p.acceleration.multiply(dt * dt)
verletSum(w, oldPosition, p, dt) ==
    verletEnd(FieldCall(w, p, "acceleration", "multiply", <<Num(dt * dt)>>),
              Vector_add(Vec(Deref(w, w.particles[p].position)),
                         Vec(Deref(w, w.particles[p].position))),
              oldPosition, p)

\* Utility.verletUpdate after applyForce: oldPosition is cloned, then
\* p.position.subtract(p.prevPosition) works in place
verletStep(w, p, dt) ==
    verletSum(FieldCall(w, p, "position", "subtract",
                        <<Vec(Deref(w, w.particles[p].prevPosition))>>),
              clone(Deref(w, w.particles[p].position)), p, dt)

\* Utility.verletUpdate(p, dt): the world after it, newPosition, oldPosition
verletUpdate(w, p, dt) ==
    verletStep(applyForce(w, p, Vec(w.options[w.particles[p].options].gravity)),
               p, dt)

\* Particle.verlet_update(dt)
verlet_update(w, p, dt) == expire(stepTo(verletUpdate(w, p, dt), p, dt), p)

\* Particle.run(ctx, dt): update, then draw (draw changes the surface only)
Particle_run(w, p, dt) ==
    [update(w, p, dt) EXCEPT !.runCount[p] = @ + 1]

\* Particle.checkBoundaries that clamps the position and keeps the velocity
checkBoundariesNoBounce(w, p, ctx) ==
    LET radius == w.options[w.particles[p].options].radius
        pos == Deref(w, w.particles[p].position)
        hitX == IF radius = Undefined THEN "none"
                ELSE IF pos[1] > ctx.width - radius THEN "max"
                ELSE IF pos[1] < radius THEN "min" ELSE "none"
        x1 == IF hitX = "max" THEN ctx.width - radius
              ELSE IF hitX = "min" THEN radius ELSE pos[1]
        hitY == IF radius = Undefined THEN "none"
                ELSE IF pos[2] > ctx.height - radius THEN "max"
                ELSE IF pos[2] < radius THEN "min" ELSE "none"
        y1 == IF hitY = "max" THEN ctx.height - radius
              ELSE IF hitY = "min" THEN radius ELSE pos[2]
    IN Store(w, p, "position", <<x1, y1>>)

\* Particle.checkBoundaries(ctx); a comparison with NaN (radius undefined) is
\* false
checkBoundaries(w, p, ctx) ==
    LET radius == w.options[w.particles[p].options].radius
        pos == Deref(w, w.particles[p].position)
        vel == Deref(w, w.particles[p].velocity)
        hitX == IF radius = Undefined THEN "none"
                ELSE IF pos[1] > ctx.width - radius THEN "max"
                ELSE IF pos[1] < radius THEN "min" ELSE "none"
        x1 == IF hitX = "max" THEN ctx.width - radius
              ELSE IF hitX = "min" THEN radius ELSE pos[1]
        w1 == IF hitX = "none" THEN w
              ELSE Store(Store(w, p, "position", <<x1, pos[2]>>),
                         p, "velocity", <<vel[1] * (-1), vel[2]>>)
        pos1 == Deref(w1, w1.particles[p].position)
        vel1 == Deref(w1, w1.particles[p].velocity)
        hitY == IF radius = Undefined THEN "none"
                ELSE IF pos1[2] > ctx.height - radius THEN "max"
                ELSE IF pos1[2] < radius THEN "min" ELSE "none"
        y1 == IF hitY = "max" THEN ctx.height - radius
              ELSE IF hitY = "min" THEN radius ELSE pos1[2]
    IN IF hitY = "none" THEN w1
       ELSE Store(Store(w1, p, "position", <<pos1[1], y1>>),
                  p, "velocity", <<vel1[1], vel1[2] * (-1)>>)

\* zeroVector.op(q.name): an in-place arithmetic call on zeroVector with the
\* Vector a field of particle q refers to as operand
ZeroCall(w, op, q, name) ==
    [w EXCEPT !.zeroVector =
                  Method(DEBUG, op, @, <<Vec(Deref(w, w.particles[q][name]))>>).v]

\* zeroVector.copy(q.name)
ZeroCopy(w, q, name) ==
    [w EXCEPT !.zeroVector = copy(@, Deref(w, w.particles[q][name]))]

\* zeroVector.multiply(n)
ZeroMultiply(w, n) ==
    [w EXCEPT !.zeroVector = multiply(@, <<Num(n)>>)]

\* checkCollision, the branch for distance === 0: the particles are pushed
\* apart along the direction Vector.randomDirection() drew
pushApart(w, this, other, direction, overlap) ==
    LET randomDirection == multiply(direction, <<Num(overlap \div 2)>>)
    IN FieldCall(FieldCall(w, this, "position", "add", <<Vec(randomDirection)>>),
                 other, "position", "subtract", <<Vec(randomDirection)>>)

\* p.name.op(zeroVector): an in-place arithmetic call with the zeroVector
\* object as operand
FieldZero(w, p, name, op) == FieldCall(w, p, name, op, <<Vec(w.zeroVector)>>)

\* checkCollision, the position correction: zeroVector is normalized and
\* scaled (collisionNormal and correctionVector are both the zeroVector
\* object), then added to and subtracted from the positions
correctPositions(w, this, other, overlap) ==
    FieldZero(FieldZero(ZeroMultiply([w EXCEPT !.zeroVector = normalize(DEBUG, @).v],
                                     overlap \div 2),
                        this, "position", "add"),
              other, "position", "subtract")

\* checkCollision, the impulse: impulse is the zeroVector object again
applyImpulse(w, this, other, speed) ==
    LET massThis == w.options[w.particles[this].options].mass
        massOther == w.options[w.particles[other].options].mass
        mSum == massThis + massOther
        mThisRatio == (2 * massOther) \div mSum
        mOtherRatio == (2 * massThis) \div mSum
    IN FieldZero(ZeroMultiply(FieldZero(ZeroMultiply(ZeroMultiply(w, speed),
                                                     mThisRatio),
                                        this, "velocity", "subtract"),
                              mOtherRatio),
                 other, "velocity", "add")

\* checkCollision from const speed = vRel.dot(collisionNormal) on, vRel and
\* collisionNormal both being the zeroVector object of w
resolveVelocities(w, this, other) ==
    LET speed == dot(w.debug, w.zeroVector, <<Vec(w.zeroVector)>>)
    IN IF speed.throws THEN [w |-> w, throws |-> TRUE]
       ELSE IF ~(speed.n # 0 /\ speed.n < 0) THEN [w |-> w, throws |-> FALSE]
       ELSE [w |-> applyImpulse(w, this, other, speed.n), throws |-> FALSE]

\* checkCollision after zeroVector.copy(other.position).subtract(this.position)
resolveOverlap(w, this, other, direction) ==
    LET sumRadius == w.options[w.particles[this].options].radius
                         + w.options[w.particles[other].options].radius
        distance == magnitude(w.zeroVector)
        overlap == sumRadius - distance
    IN IF ~(distance < sumRadius) THEN [w |-> w, throws |-> FALSE]
       ELSE IF distance = 0
       THEN [w |-> pushApart(w, this, other, direction, overlap),
             throws |-> FALSE]
       ELSE resolveVelocities(
                ZeroCall(ZeroCopy(correctPositions(w, this, other, overlap),
                                  this, "velocity"),
                         "subtract", other, "velocity"),
                this, other)

\* Particle.checkCollision(other): the world after it, and whether it threw.
\* direction is the Vector that Vector.randomDirection() draws.
checkCollision(w, this, other, direction) ==
    resolveOverlap(ZeroCall(ZeroCopy(w, other, "position"),
                            "subtract", this, "position"),
                   this, other, direction)

\* -------------------------------------------------------------- Emitter
\* Emitter.addParticles; vx and vy are the values the options getters draw
addParticles(w, vx, vy) ==
    LET a == acquire(w)
    IN IF a.object = Null THEN w
       ELSE Particle_init(a.w, a.object, "Emitter.release", OriginRef,
                          Own(processArgs(<<Num(vx), Num(vy)>>).v))

\* Emitter.run: the for...of loop over the live activeObjects array, from the
\* given position of its iterator (1-based)
RECURSIVE runLoop(_, _, _)
runLoop(w, index, dt) ==
    IF index > Len(getActivePool(w)) THEN w
    ELSE LET p == getActivePool(w)[index]
         IN IF p = Null THEN w
            ELSE runLoop(IF w.particles[p].active THEN Particle_run(w, p, dt) ELSE w,
                         index + 1, dt)

\* Emitter.run(ctx, dt)
run(w, dt) == runLoop(w, 1, dt)

\* ------------------------------------------------ Emitter specification
\* the drawing surface handed to checkBoundaries
ctx == [width |-> SurfaceSize, height |-> SurfaceSize]

\* Constants.CENTER after Constants.updateDimensions(ctx)
CENTER == <<ctx.width \div 2, ctx.height \div 2>>

\* how far above the centre EmitterOptions puts the emitter
EmitterRise == 200

\* new SmokeOptions(): not static, mass 0.0, a drawn lifespan, gravity
\* (0, 0.0001) (one unit here) and no radius field. radius is what
\* checkBoundaries, checkCollision and draw read, so an options object that
\* carries one is explored besides the one SmokeOptions builds.
SmokeOptions(lifespan, radius) ==
    [isStatic |-> FALSE, mass |-> 0, lifespan |-> lifespan,
     gravity |-> <<0, 1>>, radius |-> radius]

\* new Emitter(new EmitterOptions(options))
NewEmitter(lifespan, radius) ==
    LET position == <<CENTER[1], CENTER[2] - EmitterRise>>
        w == [Blank EXCEPT !.options = <<SmokeOptions(lifespan, radius)>>,
                           !.emitter = [options |-> [position |-> position],
                                        position |-> clone(position)]]
    IN NewPool(w, "Particle", MAX_PARTICLES, 1)

EmitterInit ==
    \E lifespan \in 0..MaxLifespan, radius \in {Undefined} \cup (1..MaxRadius) :
        /\ Start(NewEmitter(lifespan, radius))
        /\ call = NoCall
        /\ prev = NoCall
        /\ snapshot = pool
        /\ acquired = <<>>
        /\ released = FALSE
        /\ steps = <<>>
        /\ startActive = {}

\* the frame driver calls emitter.addParticles(); options.vx is drawn from
\* xSpeedRange (0, 0) and options.vy from ySpeedRange [-1, 0)
AddParticles ==
    \E vy \in (-MaxSpeed)..(-1) :
        /\ Commit(addParticles([World EXCEPT !.warned = FALSE,
                                             !.runCount = [p \in DOMAIN runCount |-> 0]],
                                0, vy))
        /\ call' = [op |-> "addParticles", arg |-> 0,
                    result |-> acquire(World).object]
        /\ startActive' = {}
        /\ UNCHANGED <<prev, snapshot, acquired, released, steps>>

\* the frame driver calls emitter.run(ctx, dt)
Run ==
    \E dt \in 1..MaxDt :
        /\ options[1].lifespan >= -MaxOverrun
        /\ Commit(run([World EXCEPT !.warned = FALSE,
                                    !.runCount = [p \in DOMAIN runCount |-> 0]],
                      dt))
        /\ call' = [op |-> "run", arg |-> dt, result |-> 0]
        /\ startActive' = {p \in Elements(pool.activeObjects) : particles[p].active}
        /\ UNCHANGED <<prev, snapshot, acquired, released, steps>>

\* a caller runs checkBoundaries(ctx) on a particle the emitter has spawned
CheckBoundaries ==
    \E p \in Elements(pool.activeObjects) :
        /\ Commit(checkBoundaries([World EXCEPT !.warned = FALSE,
                                                !.runCount = [q \in DOMAIN runCount |-> 0]],
                                   p, ctx))
        /\ call' = [op |-> "checkBoundaries", arg |-> p, result |-> 0]
        /\ startActive' = {}
        /\ UNCHANGED <<prev, snapshot, acquired, released, steps>>

EmitterNext == AddParticles \/ Run \/ CheckBoundaries

SpecEmitter == EmitterInit /\ [][EmitterNext]_vars

\* --------------------------------------- Emitter, stepped by particle
\* new Emitter(new EmitterOptions(options)), with SmokeOptions as written
StepInit ==
    \E lifespan \in 0..MaxLifespan :
        /\ Start(NewEmitter(lifespan, Undefined))
        /\ call = NoCall
        /\ prev = NoCall
        /\ snapshot = pool
        /\ acquired = <<>>
        /\ released = FALSE
        /\ steps = <<>>
        /\ startActive = {}

\* a caller steps one spawned particle itself: p.update(dt) or
\* p.verlet_update(dt); the result kept is dt
StepParticle ==
    \E p \in Elements(pool.activeObjects), dt \in 1..MaxDt,
       step \in {"update", "verlet_update"} :
        /\ options[1].lifespan >= -MaxOverrun
        /\ LET w == [World EXCEPT !.warned = FALSE,
                                  !.runCount = [q \in DOMAIN runCount |-> 0]]
           IN Commit(IF step = "update" THEN update(w, p, dt)
                     ELSE verlet_update(w, p, dt))
        /\ call' = [op |-> step, arg |-> p, result |-> dt]
        /\ startActive' = {}
        /\ UNCHANGED <<prev, snapshot, acquired, released, steps>>

StepNext == AddParticles \/ StepParticle

SpecStep == StepInit /\ [][StepNext]_vars

\* ------------------------------ Emitter, with particles destroyed by hand
\* a caller destroys a pooled particle itself: p.destroy(); the result kept
\* is the callback the particle held when the call began
DestroyParticle ==
    \E p \in DOMAIN particles :
        /\ Commit(destroy([World EXCEPT !.warned = FALSE,
                                        !.runCount = [q \in DOMAIN runCount |-> 0]],
                           p))
        /\ call' = [op |-> "destroy", arg |-> p, result |-> particles[p].callback]
        /\ startActive' = {}
        /\ UNCHANGED <<prev, snapshot, acquired, released, steps>>

DestroyNext == AddParticles \/ Run \/ DestroyParticle

SpecDestroy == StepInit /\ [][DestroyNext]_vars

\* ------------------------------------------------------- the frame loop
\* how far below 0 the shared lifespan may be when a frame begins; the loop
\* is followed for four full frames' worth of steps beyond 0
FrameOverrun == 4 * MAX_PARTICLES * MaxDt

\* main.ts up to ctx.startAnimation: new Emitter(emitterOptions), then the
\* first emitter.addParticles()
FrameInit ==
    \E lifespan \in 0..MaxLifespan, radius \in {Undefined} \cup (1..MaxRadius),
       vy \in (-MaxSpeed)..(-1) :
        /\ Start(addParticles(NewEmitter(lifespan, radius), 0, vy))
        /\ call = NoCall
        /\ prev = NoCall
        /\ snapshot = pool
        /\ acquired = <<>>
        /\ released = FALSE
        /\ steps = <<>>
        /\ startActive = {}

\* the animation frame callback, called with a time stamp dt after the last
\* one: lastTime = timeStamp, emitter.addParticles(), then
\* emitter.run(ctx, dt). dt is the same in every frame: the first frame
\* draws it and every later frame takes the dt of the frame before it.
Frame ==
    \E dt \in 1..MaxDt, vy \in (-MaxSpeed)..(-1) :
        /\ call.op = "frame" => dt = call.arg
        /\ options[1].lifespan >= -FrameOverrun
        /\ Commit(run(addParticles([World EXCEPT
                                        !.warned = FALSE,
                                        !.runCount = [p \in DOMAIN runCount |-> 0],
                                        !.lastTime = @ + dt],
                                    0, vy),
                      dt))
        /\ call' = [op |-> "frame", arg |-> dt, result |-> acquire(World).object]
        /\ startActive' = {}
        /\ UNCHANGED <<prev, snapshot, acquired, released, steps>>

FrameNext == Frame

\* what the frame driver does: while the loop is followed it delivers the
\* next time stamp, which is a call of the callback
NextTimeStamp ==
    /\ options[1].lifespan >= -FrameOverrun
    /\ \E dt \in 1..MaxDt : lastTime' = lastTime + dt

\* the frame loop, with the frame driver calling the callback again and
\* again
SpecFrame == FrameInit /\ [][FrameNext]_vars /\ WF_lastTime(NextTimeStamp)

\* ----------------------------------------------- Particle specification
\* options of a particle made on its own: new Particle(options)
ParticleOptions(lifespan) ==
    [isStatic |-> FALSE, mass |-> 1, lifespan |-> lifespan,
     gravity |-> <<0, 1>>, radius |-> 1]

\* the Vectors a caller hands to init()
PositionSet == {<<0, 0>>, CENTER, <<SurfaceSize + 1, 1>>, <<1, SurfaceSize + 1>>}
VelocitySet == {<<0, -1>>, <<1, 0>>, <<-1, 1>>}

\* one particle, number 1, with options of its own and a callback (the
\* listener) that does nothing but get called
ParticleSpecInit ==
    \E lifespan \in 0..MaxLifespan :
        /\ Start([Blank EXCEPT !.particles = <<NewParticle(1, 1)>>,
                               !.options = <<ParticleOptions(lifespan)>>,
                               !.fired = <<0>>,
                               !.runCount = <<0>>])
        /\ call = NoCall
        /\ prev = NoCall
        /\ snapshot = pool
        /\ acquired = <<>>
        /\ released = FALSE
        /\ steps = <<[lifespan |-> lifespan, dt |-> <<>>]>>
        /\ startActive = {}

\* a caller activates the particle: init(listener, position, velocity)
InitParticle ==
    \E position \in PositionSet, velocity \in VelocitySet :
        /\ ~particles[1].active
        /\ Commit(Particle_init(World, 1, "listener", Own(position), Own(velocity)))
        /\ call' = [op |-> "init", arg |-> 1, result |-> 0]
        /\ prev' = call
        /\ steps' = <<[lifespan |-> options[1].lifespan, dt |-> <<>>]>>
        /\ UNCHANGED <<snapshot, acquired, released, startActive>>

\* a caller steps the active particle: update(dt)
UpdateParticle ==
    \E dt \in 1..MaxDt :
        /\ particles[1].active
        /\ options[1].lifespan >= -MaxOverrun
        /\ Commit(update(World, 1, dt))
        /\ call' = [op |-> "update", arg |-> dt, result |-> 0]
        /\ prev' = call
        /\ steps' = [steps EXCEPT ![1].dt = Append(@, dt)]
        /\ UNCHANGED <<snapshot, acquired, released, startActive>>

\* a caller bounces the active particle off the edges: checkBoundaries(ctx)
BoundParticle ==
    /\ particles[1].active
    /\ Commit(checkBoundaries(World, 1, ctx))
    /\ call' = [op |-> "checkBoundaries", arg |-> 1, result |-> 0]
    /\ prev' = call
    /\ snapshot' = [position |-> Deref(World, particles[1].position),
                    velocity |-> Deref(World, particles[1].velocity)]
    /\ UNCHANGED <<acquired, released, steps, startActive>>

ParticleNext == InitParticle \/ UpdateParticle \/ BoundParticle

SpecParticle == ParticleSpecInit /\ [][ParticleNext]_vars

\* ---------------------------------------------- collision specification
\* options of the two particles made for a collision: equal mass 1 and
\* radius 2, static or not
CollisionOptions(isStatic) ==
    [isStatic |-> isStatic, mass |-> 1, lifespan |-> MaxLifespan,
     gravity |-> <<0, 1>>, radius |-> 2]

\* the Vectors a caller hands to init(); two radii apart at most, or out of
\* reach
CollisionPositions == {<<0, 0>>, <<2, 0>>, <<0, 2>>, <<6, 0>>}
CollisionVelocities == {<<1, 0>>, <<-1, 0>>, <<0, 0>>}

\* the unit Vectors Vector.randomDirection() is drawn from
DirectionSet == {<<1, 0>>, <<0, 1>>, <<-1, 0>>, <<0, -1>>}

\* two particles, numbers 1 and 2, each made with options of its own
CollisionInit ==
    \E static1 \in BOOLEAN, static2 \in BOOLEAN, flag \in BOOLEAN :
        /\ Start([Blank EXCEPT !.particles = <<NewParticle(1, 1), NewParticle(2, 2)>>,
                               !.options = <<CollisionOptions(static1),
                                             CollisionOptions(static2)>>,
                               !.fired = <<0, 0>>,
                               !.runCount = <<0, 0>>,
                               !.debug = flag])
        /\ call = NoCall
        /\ prev = NoCall
        /\ snapshot = pool
        /\ acquired = <<>>
        /\ released = FALSE
        /\ steps = <<>>
        /\ startActive = {}

\* a caller activates a particle: init(listener, position, velocity) with
\* Vectors made for it, or init(listener), which takes the defaults
PlaceParticle ==
    \E p \in 1..2, position \in CollisionPositions,
       velocity \in CollisionVelocities, defaults \in BOOLEAN :
        /\ ~particles[p].active
        /\ Commit(IF defaults
                  THEN Particle_init(World, p, "listener", ZeroRef, ZeroRef)
                  ELSE Particle_init(World, p, "listener", Own(position),
                                     Own(velocity)))
        /\ call' = [op |-> "init", arg |-> p, result |-> 0]
        /\ prev' = call
        /\ UNCHANGED <<snapshot, acquired, released, steps, startActive>>

\* a caller resolves the collision of the two active particles:
\* this.checkCollision(other)
CheckCollision ==
    \E this \in 1..2, direction \in DirectionSet :
        LET other == 3 - this
            r == checkCollision(World, this, other, direction)
        IN /\ particles[1].active /\ particles[2].active
           /\ Commit(r.w)
           /\ call' = [op |-> "checkCollision", arg |-> this,
                       result |-> [throws |-> r.throws]]
           /\ prev' = call
           /\ snapshot' = [position |-> [p \in 1..2 |->
                                            Deref(World, particles[p].position)],
                           velocity |-> [p \in 1..2 |->
                                            Deref(World, particles[p].velocity)]]
           /\ UNCHANGED <<acquired, released, steps, startActive>>

CollisionNext == PlaceParticle \/ CheckCollision

SpecCollision == CollisionInit /\ [][CollisionNext]_vars

\* ------------------------------------------------- Vector specification
\* largest absolute value of a component of a Vector a caller makes
MaxCoord == 2

Coord == (-MaxCoord)..MaxCoord

\* the components of the Vectors a caller makes: new Vector(x, y)
VectorSet == Coord \X Coord

\* the ways a caller can hand the operand (x, y) = b to an arithmetic method:
\* nothing, a scalar, two numbers, a pair, a one-element array, a Vector, and
\* malformed input (a string, three numbers, a number and a string)
ArgForms(b) ==
    {[form |-> "none", args |-> <<>>],
     [form |-> "scalar", args |-> <<Num(b[1])>>],
     [form |-> "numbers", args |-> <<Num(b[1]), Num(b[2])>>],
     [form |-> "pair", args |-> <<Arr(<<b[1], b[2]>>)>>],
     [form |-> "single", args |-> <<Arr(<<b[1]>>)>>],
     [form |-> "Vector", args |-> <<Vec(b)>>],
     [form |-> "string", args |-> <<Str>>],
     [form |-> "three", args |-> <<Num(b[1]), Num(b[2]), Num(0)>>],
     [form |-> "mixed", args |-> <<Num(b[1]), Str>>]}

\* each component of a0 is a whole multiple of the divisor's, or the
\* divisor's is 0 and no division is made
Whole(a0, d) == \A i \in 1..2 : d[i] # 0 => Rem(a0[i], d[i]) = 0

\* a caller has made the Vectors a and b: new Vector(x, y); __DEBUG__ is as
\* Constants sets it, or has been turned off
VectorInit ==
    \E flag \in BOOLEAN, a0 \in VectorSet, b0 \in VectorSet :
        /\ Start([Blank EXCEPT !.debug = flag,
                               !.vectors = [a |-> a0, b |-> b0]])
        /\ call = NoCall
        /\ prev = NoCall
        /\ snapshot = vectors
        /\ acquired = <<>>
        /\ released = FALSE
        /\ steps = <<>>
        /\ startActive = {}

\* the caller's first call on the new Vectors is a.op(...) with b as the
\* operand, handed over in one of the forms
MethodCall ==
    \E op \in ArithOps, f \in ArgForms(vectors.b) :
        LET r == Method(debug, op, vectors.a, f.args)
        IN /\ call = NoCall
           /\ op = "divide" => /\ Whole(vectors.a, vectors.b)
                               /\ Whole(vectors.a, processArgs(f.args).v)
           /\ Commit([World EXCEPT !.vectors.a = r.v])
           /\ call' = [op |-> op,
                       arg |-> [kind |-> "method", form |-> f.form,
                                args |-> f.args],
                       result |-> [throws |-> r.throws, ref |-> "a", v |-> r.v]]
           /\ snapshot' = vectors
           /\ UNCHANGED <<prev, acquired, released, steps, startActive>>

\* the caller's first call is Vector.op(a, b)
StaticCall ==
    \E op \in ArithOps :
        /\ call = NoCall
        /\ op = "divide" => Whole(vectors.a, vectors.b)
        /\ Commit(World)
        /\ call' = [op |-> op,
                    arg |-> [kind |-> "static", form |-> "Vector",
                             args |-> <<Vec(vectors.a), Vec(vectors.b)>>],
                    result |-> [throws |-> FALSE, ref |-> "new",
                                v |-> Static(op, Vec(vectors.a), Vec(vectors.b))]]
        /\ snapshot' = vectors
        /\ UNCHANGED <<prev, acquired, released, steps, startActive>>

\* the caller's first call is a.normalize(), on a Vector lying on an axis or
\* at the origin
NormalizeCall ==
    LET r == normalize(debug, vectors.a)
    IN /\ call = NoCall
       /\ vectors.a[1] = 0 \/ vectors.a[2] = 0
       /\ Commit([World EXCEPT !.vectors.a = r.v])
       /\ call' = [op |-> "normalize",
                   arg |-> [kind |-> "method", form |-> "none", args |-> <<>>],
                   result |-> [throws |-> r.throws, ref |-> "a", v |-> r.v]]
       /\ snapshot' = vectors
       /\ UNCHANGED <<prev, acquired, released, steps, startActive>>

\* the caller's first call is a.dot(...) or a.cross(...) with b as the
\* operand, handed over as two numbers, as a pair or as the Vector itself; a
\* call that throws returns nothing
ProductCall ==
    \E op \in ProductOps, f \in ArgForms(vectors.b) :
        LET r == IF op = "dot" THEN dot(debug, vectors.a, f.args)
                 ELSE cross(debug, vectors.a, f.args)
        IN /\ call = NoCall
           /\ f.form \in {"numbers", "pair", "Vector"}
           /\ Commit(World)
           /\ call' = [op |-> op,
                       arg |-> [kind |-> "method", form |-> f.form,
                                args |-> f.args],
                       result |-> [throws |-> r.throws, ref |-> "number",
                                   v |-> IF r.throws THEN <<>> ELSE <<r.n>>]]
           /\ snapshot' = vectors
           /\ UNCHANGED <<prev, acquired, released, steps, startActive>>

VectorNext == MethodCall \/ StaticCall \/ NormalizeCall \/ ProductCall

SpecVector == VectorInit /\ [][VectorNext]_vars

\* ------------------------------------------------------ claims on the Pool
\* C1: from a fresh Pool of capacity N, acquire() called N+1 times with no
\* release() in between returns N distinct pooled objects and then null, and
\* the pool's length is N before, between and after these calls.
C1_AcquireUntilExhausted ==
    ~released =>
        /\ length(World) = pool.maxSize
        /\ \A i \in 1..Len(acquired) :
               IF i <= pool.maxSize
               THEN /\ acquired[i] # Null
                    /\ acquired[i] \in Elements(pool.allObjects)
                    /\ \A j \in 1..(i - 1) : acquired[j] # acquired[i]
               ELSE acquired[i] = Null

\* a pool of capacity 2 or more on which the (N+1)th acquire() was just made
C1_Witness ==
    /\ ~released
    /\ pool.maxSize >= 2
    /\ Len(acquired) = pool.maxSize + 1
    /\ call.op = "acquire"

\* C2: after any acquire()/release(obj) calls, with any obj, activeObjects and
\* inactiveObjects are disjoint, together hold exactly the pooled objects, and
\* hold each of them once.
C2_Partition ==
    /\ Elements(pool.activeObjects) \cap Elements(pool.inactiveObjects) = {}
    /\ Elements(pool.activeObjects) \cup Elements(pool.inactiveObjects)
           = Elements(pool.allObjects)
    /\ Cardinality(Elements(pool.activeObjects)) = Len(pool.activeObjects)
    /\ Cardinality(Elements(pool.inactiveObjects)) = Len(pool.inactiveObjects)
    /\ Len(pool.activeObjects) + Len(pool.inactiveObjects) = Len(pool.allObjects)

\* a release() of an object that was active, with objects left on both sides
C2_Witness ==
    /\ call.op = "release"
    /\ ~warned
    /\ Len(pool.activeObjects) >= 1
    /\ Len(pool.inactiveObjects) >= 2

\* C3: the constructor creates exactly maxSize objects, all inactive, and no
\* later call adds to or removes from allObjects.
C3_FixedObjects ==
    /\ pool.allObjects = [i \in 1..pool.maxSize |-> i]
    /\ pool.created = pool.maxSize
    /\ Len(pool.allObjects) <= pool.maxSize
    /\ call.op = "new" =>
           /\ pool.inactiveObjects = pool.allObjects
           /\ pool.activeObjects = <<>>

\* acquire() was called with every object active and returned null
C3_Witness ==
    /\ call.op = "acquire"
    /\ call.result = Null
    /\ pool.maxSize >= 2
    /\ released

\* C4: wherever acquire() succeeds, release() of the object it returned gives
\* back the pool as it was before the acquire(): the same activeObjects and
\* the same inactiveObjects, in the same order.
C4_RoundTrip ==
    /\ LET a == acquire(World)
       IN a.object # Null => release(a.w, a.object).pool = pool
    /\ (call.op = "release" /\ prev.op = "acquire" /\ prev.result # Null
            /\ call.arg = prev.result)
           => pool = snapshot

\* an acquire() followed by release() of its result, in a pool that had two
\* or more inactive objects and an active one
C4_Witness ==
    /\ call.op = "release"
    /\ prev.op = "acquire"
    /\ prev.result = call.arg
    /\ Len(pool.inactiveObjects) >= 2
    /\ Len(pool.activeObjects) >= 1

\* C5: release(obj) of an object that is not in activeObjects warns and
\* changes nothing.
C5_ReleaseInactiveIsNoOp ==
    [][(call'.op = "release" /\ IndexOf(pool.activeObjects, call'.arg) = 0)
           => (pool' = pool /\ warned' /\ particles' = particles)]_vars

\* the same pooled object released twice in a row
C5_Witness ==
    /\ call.op = "release"
    /\ prev.op = "release"
    /\ prev.arg = call.arg
    /\ call.arg \in Elements(pool.allObjects)
    /\ warned

\* ------------------------------------- claims on the Emitter and Particle
\* C6: in one Emitter.run call, every particle that is active and in the
\* pool's active sequence when the call starts is run exactly once, whatever
\* dies during the call.
C6_EveryLiveParticleRunOnce ==
    call.op = "run" => \A p \in startActive : runCount[p] = 1

\* C7: a particle whose lifespan is 1.0 (2 units) at init() and that is then
\* stepped twice with dt = 0.5 (1 unit) is dead when the second step returns
\* and its callback has fired exactly once.
C7_DeadAfterSecondStep ==
    (steps[1].lifespan = 2 /\ steps[1].dt = <<1, 1>>)
        => (~particles[1].active /\ fired[1] = 1)

\* C7 as amended: the second step leaves lifespan 0, which is not < 0, so the
\* particle is still active then and no callback has fired; the third step
\* destroys it and the callback has then fired exactly once.
C7_DeadAfterThirdStep ==
    steps[1].lifespan = 2 =>
        /\ steps[1].dt = <<1, 1>> =>
               /\ particles[1].active
               /\ fired[1] = 0
               /\ options[1].lifespan = 0
        /\ steps[1].dt = <<1, 1, 1>> =>
               /\ ~particles[1].active
               /\ fired[1] = 1
               /\ particles[1].callback = "undefined"
               /\ options[1].lifespan < 0

\* the particle after its third step of 0.5
C7_Witness ==
    /\ steps[1].lifespan = 2
    /\ steps[1].dt = <<1, 1, 1>>
    /\ call.op = "update"

\* C8: addParticles() with every pooled particle active changes nothing:
\* not the pool, not a particle, not the options, zeroVector or the emitter.
C8_SpawnWhenFullIsNoOp ==
    [][(call'.op = "addParticles"
            /\ \A p \in Elements(pool.allObjects) :
                   particles[p].active /\ p \in Elements(pool.activeObjects))
           => /\ call'.result = Null
              /\ pool' = pool
              /\ particles' = particles
              /\ options' = options
              /\ zeroVector' = zeroVector
              /\ emitter' = emitter
              /\ ~warned']_vars

\* addParticles() was just called on a pool whose particles are all active
C8_Witness ==
    /\ call.op = "addParticles"
    /\ call.result = Null
    /\ Len(pool.activeObjects) = MAX_PARTICLES
    /\ \A p \in Elements(pool.allObjects) : particles[p].active

C10_InactiveHoldsNoState ==
    \A p \in DOMAIN particles :
        ~particles[p].active =>
            \/ particles[p].prevPosition.ref = "zeroVector"
            \/ /\ Deref(World, particles[p].position) = <<0, 0>>
               /\ Deref(World, particles[p].velocity) = <<0, 0>>

\* ---------------------------------------------------- claims on the Vector
\* C15: an in-place arithmetic method gives the same result whether its
\* operand (x, y) is passed as two numbers, as the pair [x, y] or as a Vector
\* with these components, and a scalar s acts as (s, s).
C15_OperandForms ==
    (call.op \in ArithOps /\ call.arg.kind = "method"
         /\ call.arg.form \in {"numbers", "pair", "Vector", "scalar"})
        => LET x == snapshot.b[1]
               y == IF call.arg.form = "scalar" THEN x ELSE snapshot.b[2]
           IN /\ ~call.result.throws
              /\ vectors.a = Method(debug, call.op, snapshot.a,
                                    <<Num(x), Num(y)>>).v

C17_NormalizeZero ==
    (call.op = "normalize" /\ snapshot.a = <<0, 0>>)
        => /\ ~call.result.throws
           /\ call.result.ref = "a"
           /\ call.result.v = <<0, 0>>
           /\ vectors.a = <<0, 0>>

\* normalize() was called on {0, 0} with __DEBUG__ on
C17_Witness ==
    /\ call.op = "normalize"
    /\ snapshot.a = <<0, 0>>
    /\ debug

\* C18: a binary static function Vector.op(a, b) returns a new Vector whose
\* components are those of a.op(b) carried out on a copy of a, and leaves
\* the components of a and of b as they were.
C18_StaticPure ==
    (call.op \in ArithOps /\ call.arg.kind = "static")
        => /\ call.result.ref = "new"
           /\ call.result.v = Method(debug, call.op, snapshot.a,
                                     <<Num(snapshot.b[1]), Num(snapshot.b[2])>>).v
           /\ vectors = snapshot

\* C19: with __DEBUG__ off, absent or malformed arguments count as {0, 0}, so
\* add and subtract leave the Vector as it is; with __DEBUG__ on, malformed
\* arguments raise InvalidArgumentError and the Vector is left as it is.
C19_InvalidInput ==
    (call.op \in ArithOps /\ call.arg.kind = "method")
        => /\ (~debug /\ call.arg.form \in {"none", "string", "three", "mixed"})
                  => /\ ~call.result.throws
                     /\ vectors.a = Method(debug, call.op, snapshot.a,
                                           <<Num(0), Num(0)>>).v
                     /\ call.op \in {"add", "subtract"} => vectors.a = snapshot.a
           /\ (debug /\ call.arg.form \in {"string", "three", "mixed"})
                  => /\ call.result.throws
                     /\ vectors.a = snapshot.a

\* multiply was called on a Vector other than {0, 0} with a number and a
\* string while __DEBUG__ was on
C19_Witness ==
    /\ debug
    /\ call.op = "multiply"
    /\ call.arg.kind = "method"
    /\ call.arg.form = "mixed"
    /\ call.result.throws
    /\ snapshot.a = <<1, 2>>

\* ----------------------------- further claims on the Emitter and Particle
\* C11: the particles of an Emitter do not share their remaining lifespan: a
\* call of Emitter.run decreases the lifespan of the particles it steps and
\* leaves the lifespan of every other pooled particle as it was.
C11_OwnLifespan ==
    [][call'.op = "run" =>
           \A p \in DOMAIN particles :
               runCount'[p] = 0 =>
                   options'[particles'[p].options].lifespan
                       = options[particles[p].options].lifespan]_vars

Overlapping ==
    LET d == <<snapshot.position[2][1] - snapshot.position[1][1],
               snapshot.position[2][2] - snapshot.position[1][2]>>
        sumRadius == options[1].radius + options[2].radius
    IN magnitudeSq(d) < sumRadius * sumRadius

\* C12: checkCollision on two overlapping, equal-mass, non-static particles
\* that approach each other head-on, with velocities v and -v along the line
\* joining them, returns normally and leaves the two velocities exchanged
\* (which conserves their sum).
C12_HeadOnSwap ==
    LET this == call.arg
        other == 3 - this
        d == <<snapshot.position[other][1] - snapshot.position[this][1],
               snapshot.position[other][2] - snapshot.position[this][2]>>
        v == snapshot.velocity[this]
    IN (/\ call.op = "checkCollision"
        /\ Overlapping
        /\ ~options[1].isStatic /\ ~options[2].isStatic
        /\ options[1].mass = options[2].mass
        /\ snapshot.velocity[other] = <<-v[1], -v[2]>>
        /\ v[1] * d[2] - v[2] * d[1] = 0
        /\ v[1] * d[1] + v[2] * d[2] > 0)
           => /\ ~call.result.throws
              /\ Deref(World, particles[this].velocity) = snapshot.velocity[other]
              /\ Deref(World, particles[other].velocity) = snapshot.velocity[this]

\* C14: checkCollision on two overlapping particles leaves the position of
\* every static one where it was.
C14_StaticStays ==
    (call.op = "checkCollision" /\ Overlapping)
        => \A p \in 1..2 :
               options[particles[p].options].isStatic
                   => Deref(World, particles[p].position) = snapshot.position[p]

\* C20: when a step of a pooled particle (update or verlet_update) leaves its
\* lifespan below 0, the particle is inactive, in inactiveObjects and not in
\* activeObjects as the step returns; a step that leaves the lifespan at 0 or
\* above destroys nothing: the particle's active flag, the pool and the
\* callback counts are as before.
C20_DeathWithinStep ==
    [][call'.op \in {"update", "verlet_update"} =>
           LET p == call'.arg
           IN IF options'[particles'[p].options].lifespan < 0
              THEN /\ ~particles'[p].active
                   /\ IndexOf(pool'.inactiveObjects, p) # 0
                   /\ IndexOf(pool'.activeObjects, p) = 0
              ELSE /\ particles'[p].active = particles[p].active
                   /\ pool' = pool
                   /\ fired' = fired]_vars

\* a step has just taken the lifespan of a spawned particle below 0 and the
\* particle went back to the pool through its callback
C20_Witness ==
    /\ call.op \in {"update", "verlet_update"}
    /\ options[particles[call.arg].options].lifespan < 0
    /\ options[particles[call.arg].options].lifespan + call.result >= 0
    /\ fired[call.arg] = 1
    /\ ~particles[call.arg].active
    /\ IndexOf(pool.inactiveObjects, call.arg) # 0

\* C21: the callback given to init() is invoked at most once per init(),
\* whether the particle is destroyed by a step or by a caller. destroy()
\* leaves the particle inactive and without a callback; it invokes the
\* callback it held, once; a destroy() of a particle that holds none (it was
\* destroyed since its last init()) invokes nothing, releases nothing and
\* leaves the pool as it was.
C21_CallbackOnce ==
    [][call'.op = "destroy" =>
           LET p == call'.arg
           IN /\ ~particles'[p].active
              /\ particles'[p].callback = "undefined"
              /\ \A q \in DOMAIN particles : fired'[q] <= 1
              /\ IF particles[p].callback = "undefined"
                 THEN /\ fired' = fired
                      /\ pool' = pool
                      /\ ~warned'
                 ELSE /\ fired'[p] = fired[p] + 1
                      /\ IndexOf(pool'.inactiveObjects, p) # 0
                      /\ IndexOf(pool'.activeObjects, p) = 0]_vars

\* destroy() was called on a particle whose callback had fired since its
\* last init() and had been cleared
C21_Witness ==
    /\ call.op = "destroy"
    /\ call.result = "undefined"
    /\ fired[call.arg] = 1
    /\ ~warned
    /\ IndexOf(pool.inactiveObjects, call.arg) # 0

\* C22: under the frame loop with a fixed dt > 0, every particle that is
\* active (at a time when the loop is followed for two full frames or more
\* after it) is inactive again later, in inactiveObjects and out of
\* activeObjects.
C22_EveryParticleRetires ==
    \A p \in 1..MAX_PARTICLES :
        (particles[p].active /\ options[1].lifespan >= -(FrameOverrun \div 2))
            ~> (/\ ~particles[p].active
                /\ IndexOf(pool.inactiveObjects, p) # 0
                /\ IndexOf(pool.activeObjects, p) = 0)

\* a frame has just been run in which a particle died and went back to the
\* pool while another one stayed active
C22_Witness ==
    /\ call.op = "frame"
    /\ \E p \in DOMAIN particles, q \in DOMAIN particles :
           /\ fired[p] = 1
           /\ ~particles[p].active
           /\ IndexOf(pool.inactiveObjects, p) # 0
           /\ particles[q].active
           /\ IndexOf(pool.activeObjects, q) # 0

\* C23: checkCollision on two particles whose centres are d apart, with
\* 0 < d < sum of the radii (here along an axis, where d is whole), leaves
\* them exactly the sum of the radii apart, and not closer than before.
C23_PushedApart ==
    LET before == <<snapshot.position[2][1] - snapshot.position[1][1],
                    snapshot.position[2][2] - snapshot.position[1][2]>>
        after == <<Deref(World, particles[2].position)[1]
                       - Deref(World, particles[1].position)[1],
                   Deref(World, particles[2].position)[2]
                       - Deref(World, particles[1].position)[2]>>
        sumRadius == options[1].radius + options[2].radius
    IN (/\ call.op = "checkCollision"
        /\ Overlapping
        /\ magnitudeSq(before) > 0
        /\ before[1] = 0 \/ before[2] = 0)
           => /\ magnitudeSq(after) = sumRadius * sumRadius
              /\ magnitudeSq(after) >= magnitudeSq(before)

\* C24: one Euler step update(dt) leaves prevPosition at the old position,
\* position at old position + old velocity, velocity at old velocity
\* + a * dt^2, a being the acceleration once gravity has been applied, and
\* acceleration at zero.
C24_EulerStep ==
    [][call'.op = "update" =>
           LET position == Deref(World, particles[1].position)
               velocity == Deref(World, particles[1].velocity)
               a == Deref(applyForce(World, 1, Vec(options[1].gravity)),
                          particles[1].acceleration)
               dt == call'.arg
           IN /\ Deref(World, particles[1].prevPosition)' = position
              /\ Deref(World, particles[1].position)'
                     = <<position[1] + velocity[1], position[2] + velocity[2]>>
              /\ Deref(World, particles[1].velocity)'
                     = <<velocity[1] + a[1] * dt * dt, velocity[2] + a[2] * dt * dt>>
              /\ Deref(World, particles[1].acceleration)' = <<0, 0>>]_vars

\* C25: one Verlet step verlet_update(dt) leaves prevPosition at the old
\* position, position at old position + (old position - old prevPosition)
\* + a * dt^2, a being the acceleration once gravity has been applied, and
\* acceleration at zero.
C25_VerletStep ==
    [][\A p \in DOMAIN particles :
           (call'.op = "verlet_update" /\ call'.arg = p) =>
               LET position == Deref(World, particles[p].position)
                   prevPosition == Deref(World, particles[p].prevPosition)
                   a == Deref(applyForce(World, p,
                                         Vec(options[particles[p].options].gravity)),
                              particles[p].acceleration)
                   dt == call'.result
               IN /\ Deref(World, particles[p].prevPosition)' = position
                  /\ Deref(World, particles[p].position)'
                         = <<2 * position[1] - prevPosition[1] + a[1] * dt * dt,
                             2 * position[2] - prevPosition[2] + a[2] * dt * dt>>
                  /\ Deref(World, particles[p].acceleration)' = <<0, 0>>]_vars

\* C26: a.dot(b) returns a.x * b.x + a.y * b.y and a.cross(b) returns
\* a.x * b.y - a.y * b.x, whether b is handed over as a Vector, as a pair or
\* as two numbers; neither raises, and a and b are left as they were.
C26_DotAndCross ==
    call.op \in ProductOps =>
        LET a == snapshot.a
            b == snapshot.b
        IN /\ ~call.result.throws
           /\ call.result.v = <<IF call.op = "dot"
                                 THEN a[1] * b[1] + a[2] * b[2]
                                 ELSE a[1] * b[2] - a[2] * b[1]>>
           /\ vectors = snapshot

\* C27: whenever addParticles() activates a particle, fresh or acquired again
\* after a death, the lifespan that particle has left is not negative.
C27_SpawnedWithLifespan ==
    (call.op = "addParticles" /\ call.result # Null)
        => /\ particles[call.result].active
           /\ options[particles[call.result].options].lifespan >= 0

\* C28: between Emitter calls, after any addParticles() and run(ctx, dt), a
\* pooled particle is active exactly if it is in activeObjects, and inactive
\* exactly if it is in inactiveObjects.
C28_ActiveFlagMatchesPartition ==
    \A p \in DOMAIN particles :
        /\ particles[p].active <=> IndexOf(pool.activeObjects, p) # 0
        /\ ~particles[p].active <=> IndexOf(pool.inactiveObjects, p) # 0

\* a run has just destroyed one particle and stepped over another, which is
\* still active
C28_Witness ==
    /\ call.op = "run"
    /\ \E p \in startActive, q \in startActive :
           /\ ~particles[p].active
           /\ particles[q].active
           /\ runCount[p] = 1
           /\ runCount[q] = 0

\* C29: under any addParticles() and run(ctx, dt) calls, Pool.release is only
\* reached with a particle that is in activeObjects: the warning branch is
\* never taken, and no particle's callback fires a second time before the
\* particle is spawned again.
C29_ReleaseOnlyActive ==
    /\ ~warned
    /\ \A p \in DOMAIN particles : fired[p] <= 1

\* a run has just released a particle through its callback
C29_Witness ==
    /\ call.op = "run"
    /\ \E p \in startActive :
           /\ fired[p] = 1
           /\ IndexOf(pool.inactiveObjects, p) # 0

\* C30: a particle's acceleration changes only through that particle's own
\* applyForce, init or integration step; in particular checkCollision leaves
\* the acceleration of both particles, and of every other one, as it was.
C30_OwnAcceleration ==
    [][call'.op = "checkCollision" =>
           \A p \in DOMAIN particles :
               Deref(World, particles[p].acceleration)'
                   = Deref(World, particles[p].acceleration)]_vars

====
